---- MODULE Spec2Model ----
(***************************************************************************)
(* Model of the CMC Patagonia order invoicing pipeline:                    *)
(*   lib/pricing.js  - colour normalisation, aggregation, tier resolution, *)
(*                     minimum filter, price composition, totals           *)
(*   invoice.js      - main(): the batch run over all customers and the    *)
(*                     external invoicing calls                            *)
(* JavaScript strings are TLA+ strings, objects used as maps are functions *)
(* whose DOMAIN is the set of own keys, arrays are sequences.  A number of *)
(* currency is an exact mixed fraction counted in hundredths of the        *)
(* currency unit (so the code's `x * 100` is the value itself), or NaN.    *)
(***************************************************************************)
EXTENDS Integers, Sequences, FiniteSets, TLC

VARIABLES
    call,            \* the last direct call of a lib/pricing.js function
    pc,              \* position of main()
    args,            \* process.argv flags
    pricing,         \* pricing.json
    rows,            \* the rows loadOrders() returns
    customers,       \* groupByEmail(rows)
    productColorCounts,
    eligibleCombos,
    excludedCombos,
    tierMap,
    ci,              \* index of the customer being processed
    lineItems,       \* line items of the customer being processed
    customerTotal,
    totalRevenue,
    invoiceCount,
    processed,       \* per processed customer: what the loop body produced
    ext              \* the external services and the position in createInvoice

vars == <<call, pc, args, pricing, rows, customers, productColorCounts,
          eligibleCombos, excludedCombos, tierMap, ci, lineItems,
          customerTotal, totalRevenue, invoiceCount, processed, ext>>

mainVars == <<pc, args, pricing, rows, customers, productColorCounts,
              eligibleCombos, excludedCombos, tierMap, ci, lineItems,
              customerTotal, totalRevenue, invoiceCount, processed, ext>>

(***************************************************************************)
(* Bounds of the model                                                     *)
(***************************************************************************)
MaxQty == 9          \* quantities 0..MaxQty in direct calls
MaxMinQty == 7       \* tier thresholds 0..MaxMinQty in direct calls
MaxFailures == 1     \* external calls that may fail in one run
MaxIndexKey == 20    \* keys "0".."MaxIndexKey" are checked for being array indices
MaxRows == 3         \* rows handed to a direct call of groupByEmail
MaxSheetRows == 2    \* data rows of the sheet handed to the payment sync
MaxPaid == 2         \* paid invoices the payment sync fetches
MaxCount == 80       \* counts 0..MaxCount of a combination of the summary

(***************************************************************************)
(* JavaScript values                                                       *)
(***************************************************************************)
RECURSIVE Gcd(_, _)
Gcd(a, b) == IF b = 0 THEN a ELSE Gcd(b, a % b)

NaN == [nan |-> TRUE]

\* w + n/d hundredths, 0 <= n < d, n/d in lowest terms
Norm(w, n, d) ==
    LET q == n \div d
        r == n % d
        g == Gcd(r, d)
    IN  IF r = 0 THEN [w |-> w + q, n |-> 0, d |-> 1]
        ELSE [w |-> w + q, n |-> r \div g, d |-> d \div g]

Num(c) == [w |-> c, n |-> 0, d |-> 1]

\* a + b of JavaScript numbers
Plus(a, b) ==
    IF a = NaN \/ b = NaN THEN NaN
    ELSE LET g == Gcd(a.d, b.d)
             l == (a.d \div g) * b.d
         IN  Norm(a.w + b.w, a.n * (l \div a.d) + b.n * (l \div b.d), l)

\* a * (p/q) of JavaScript numbers, the factor given as a ratio
TimesRate(a, p, q) ==
    IF a = NaN THEN NaN
    ELSE Plus(Norm(0, a.w * p, q), Norm(0, a.n * p, a.d * q))

\* Math.round(x * 100): half up, to a whole number of hundredths
MathRound100(x) ==
    IF x = NaN THEN NaN
    ELSE Num(x.w + (IF 2 * x.n >= x.d THEN 1 ELSE 0))

\* an empty object {}
EmptyObject == [k \in {} |-> 0]

\* obj[key] = value
Put(obj, key, value) ==
    [k \in DOMAIN obj \cup {key} |-> IF k = key THEN value ELSE obj[k]]

\* String.prototype.toLowerCase on the strings of the model
toLowerCase(s) ==
    CASE s = "B@X.org" -> "b@x.org"
      [] s = " a@x.org" -> " a@x.org"
      [] OTHER -> s

\* String.prototype.trim on the strings of the model
trim(s) ==
    CASE s = " " -> ""
      [] s = " a@x.org" -> "a@x.org"
      [] OTHER -> s

(***************************************************************************)
(* lib/pricing.js                                                          *)
(***************************************************************************)
GRAY_COLORS == <<"Birch White", "Stonewash">>

\* a plausible slip: a synonym taken as the canonical label
normalizeColor_toSynonym(color) ==
    IF color = "Birch White" THEN "Stonewash"
    ELSE IF color = "Stonewash" THEN "Gray"
    ELSE color

normalizeColor(color) ==
    IF \E i \in 1..Len(GRAY_COLORS) : GRAY_COLORS[i] = color
    THEN "Gray"
    ELSE color

\* the template literal `${product}|${color}`
ProductColorKey(product, color) == product \o "|" \o color

RECURSIVE countLoop(_, _, _)
countLoop(rs, i, counts) ==
    IF i > Len(rs) THEN counts
    ELSE LET product == rs[i].Product
             color == normalizeColor(rs[i].Color)
             key == ProductColorKey(product, color)
             old == IF key \in DOMAIN counts THEN counts[key] ELSE 0
         IN  IF product = "" THEN countLoop(rs, i + 1, counts)
             ELSE countLoop(rs, i + 1, Put(counts, key, old + 1))

\* a plausible slip: the raw colour in the key
RECURSIVE countLoopRaw(_, _, _)
countLoopRaw(rs, i, counts) ==
    IF i > Len(rs) THEN counts
    ELSE LET product == rs[i].Product
             key == ProductColorKey(product, rs[i].Color)
             old == IF key \in DOMAIN counts THEN counts[key] ELSE 0
         IN  IF product = "" THEN countLoopRaw(rs, i + 1, counts)
             ELSE countLoopRaw(rs, i + 1, Put(counts, key, old + 1))

countByProductColor_rawColor(rs) == countLoopRaw(rs, 1, EmptyObject)

\* a plausible slip: the test for a missing product left out
RECURSIVE countLoopAll(_, _, _)
countLoopAll(rs, i, counts) ==
    IF i > Len(rs) THEN counts
    ELSE LET key == ProductColorKey(rs[i].Product, normalizeColor(rs[i].Color))
             old == IF key \in DOMAIN counts THEN counts[key] ELSE 0
         IN  countLoopAll(rs, i + 1, Put(counts, key, old + 1))

countByProductColor_keepNoProduct(rs) == countLoopAll(rs, 1, EmptyObject)

countByProductColor(rs) == countLoop(rs, 1, EmptyObject)

RECURSIVE tierLoop(_, _, _)
tierLoop(qty, tiers, i) ==
    IF i > Len(tiers) THEN ToString(tiers[Len(tiers)].minQty)
    ELSE IF qty >= tiers[i].minQty THEN ToString(tiers[i].minQty)
    ELSE tierLoop(qty, tiers, i + 1)

\* a plausible slip: the fallback takes the first tier instead of the last
getPricingTier_firstFallback(qty, tiers) ==
    IF \E i \in 1..Len(tiers) : qty >= tiers[i].minQty
    THEN tierLoop(qty, tiers, 1)
    ELSE ToString(tiers[1].minQty)

RECURSIVE tierLoopStrict(_, _, _)
tierLoopStrict(qty, tiers, i) ==
    IF i > Len(tiers) THEN ToString(tiers[Len(tiers)].minQty)
    ELSE IF qty > tiers[i].minQty THEN ToString(tiers[i].minQty)
    ELSE tierLoopStrict(qty, tiers, i + 1)

\* a plausible slip: >  instead of >=
getPricingTier_strict(qty, tiers) == tierLoopStrict(qty, tiers, 1)

getPricingTier(qty, tiers) == tierLoop(qty, tiers, 1)

getTierLabel(tierKey, tiers) ==
    IF \E i \in 1..Len(tiers) : ToString(tiers[i].minQty) = tierKey
    THEN LET i == CHOOSE j \in 1..Len(tiers) :
                    /\ ToString(tiers[j].minQty) = tierKey
                    /\ \A h \in 1..(j - 1) : ToString(tiers[h].minQty) # tierKey
         IN  tiers[i].label
    ELSE tierKey

\* a plausible slip: combinations below every threshold left out of the map
buildTierMap_reachedOnly(counts, tiers) ==
    [key \in {k \in DOMAIN counts :
                 \E t \in 1..Len(tiers) : counts[k] >= tiers[t].minQty}
        |-> getPricingTier(counts[key], tiers)]

buildTierMap(counts, tiers) ==
    [key \in DOMAIN counts |-> getPricingTier(counts[key], tiers)]

\* getItemPrice's null
Null == [null |-> TRUE]

\* a plausible slip: the folding fee left out, as in the earlier invoice script
getItemPrice_noFoldingFee(item, tMap, pr) ==
    IF item.product \notin DOMAIN pr.products THEN Null
    ELSE LET productPricing == pr.products[item.product]
             key == ProductColorKey(item.product, normalizeColor(item.color))
             tierKey == IF key \in DOMAIN tMap /\ tMap[key] # ""
                        THEN tMap[key] ELSE "6"
             basePrice == IF tierKey \in DOMAIN productPricing
                          THEN Num(productPricing[tierKey]) ELSE NaN
             embroideryFee == IF item.embroideredName # ""
                              THEN Num(pr.embroideryFee) ELSE Num(0)
             logoFee == IF "logoFee" \in DOMAIN pr THEN Num(pr.logoFee) ELSE Num(0)
         IN  [price |-> Plus(Plus(basePrice, embroideryFee), logoFee),
              tierKey |-> tierKey]

getItemPrice(item, tMap, pr) ==
    IF item.product \notin DOMAIN pr.products THEN Null
    ELSE LET productPricing == pr.products[item.product]
             color == normalizeColor(item.color)
             key == ProductColorKey(item.product, color)
             tierKey == IF key \in DOMAIN tMap /\ tMap[key] # ""
                        THEN tMap[key] ELSE "6"
             basePrice == IF tierKey \in DOMAIN productPricing
                          THEN Num(productPricing[tierKey]) ELSE NaN
             embroideryFee == IF item.embroideredName # ""
                              THEN Num(pr.embroideryFee) ELSE Num(0)
             logoFee == IF "logoFee" \in DOMAIN pr THEN Num(pr.logoFee) ELSE Num(0)
             foldingFee == IF "foldingFee" \in DOMAIN pr
                           THEN Num(pr.foldingFee) ELSE Num(0)
         IN  [price |-> Plus(Plus(Plus(basePrice, embroideryFee), logoFee), foldingFee),
              tierKey |-> tierKey]

\* a plausible slip: >  instead of >=
filterByMinimum_strict(counts, minQuantity) ==
    [eligible |-> [k \in {x \in DOMAIN counts : counts[x] > minQuantity} |-> counts[k]],
     excluded |-> [k \in {x \in DOMAIN counts : ~(counts[x] > minQuantity)} |-> counts[k]]]

filterByMinimum(counts, minQuantity) ==
    [eligible |-> [k \in {x \in DOMAIN counts : counts[x] >= minQuantity} |-> counts[k]],
     excluded |-> [k \in {x \in DOMAIN counts : ~(counts[x] >= minQuantity)} |-> counts[k]]]

\* a plausible slip: the tax rounded to cents before it is used
calculateTax_rounded(subtotal, taxRate) ==
    MathRound100(TimesRate(subtotal, taxRate.p, taxRate.q))

calculateTax(subtotal, taxRate) == TimesRate(subtotal, taxRate.p, taxRate.q)

\* a plausible slip: the fixed part of the fee left out
calculateStripeFee_noFixedPart(subtotal) == TimesRate(subtotal, 29, 1000)

calculateStripeFee(subtotal) == Plus(TimesRate(subtotal, 29, 1000), Num(30))

\* the description as its lines
formatItemDescription(item) ==
    <<item.product \o " - " \o item.style \o " " \o item.size
        \o " (" \o item.color \o ")",
      "Logo: " \o item.logo>>
    \o (IF item.embroideredName # ""
        THEN <<"Embroidered: \"" \o item.embroideredName \o "\" ("
                 \o item.threadColor \o " thread)">>
        ELSE <<>>)

\* keys an object lists first, in ascending numeric order: canonical array indices
IsIndexKey(s) == \E n \in 0..MaxIndexKey : ToString(n) = s

IndexOfKey(s) == CHOOSE n \in 0..MaxIndexKey : ToString(n) = s

RECURSIVE SortedIndexKeys(_)
SortedIndexKeys(S) ==
    IF S = {} THEN <<>>
    ELSE LET k == CHOOSE x \in S : \A y \in S : IndexOfKey(x) <= IndexOfKey(y)
         IN  <<k>> \o SortedIndexKeys(S \ {k})

\* Object.values(obj) for an object whose keys were inserted in `order`
ObjectValues(obj, order) ==
    LET idx == SortedIndexKeys({k \in DOMAIN obj : IsIndexKey(k)})
        rest == SelectSeq(order, LAMBDA k : ~IsIndexKey(k))
    IN  [i \in 1..(Len(idx) + Len(rest)) |->
            obj[IF i <= Len(idx) THEN idx[i] ELSE rest[i - Len(idx)]]]

ItemOfRow(row) ==
    [product |-> row.Product,
     style |-> row.Style,
     size |-> row.Size,
     color |-> row.Color,
     logo |-> row.Logo,
     embroideredName |-> row.EmbroideredName,     \* row["Embroidered Name"] || ""
     threadColor |-> row.ThreadColor]             \* row["Thread Color"] || ""

RECURSIVE groupLoop(_, _, _, _)
groupLoop(rs, i, grouped, order) ==
    IF i > Len(rs) THEN ObjectValues(grouped, order)
    ELSE LET row == rs[i]
             email == toLowerCase(row.Email)
             fresh == email \notin DOMAIN grouped
             cust == IF fresh
                     THEN [name |-> row.Name, phone |-> row.Phone,
                           email |-> email, items |-> <<>>]
                     ELSE grouped[email]
         IN  IF email = "" THEN groupLoop(rs, i + 1, grouped, order)
             ELSE groupLoop(rs, i + 1,
                     Put(grouped, email,
                         [cust EXCEPT !.items = Append(@, ItemOfRow(row))]),
                     IF fresh THEN Append(order, email) ELSE order)

\* a plausible slip: the test for a missing email left out
RECURSIVE groupLoopAll(_, _, _, _)
groupLoopAll(rs, i, grouped, order) ==
    IF i > Len(rs) THEN ObjectValues(grouped, order)
    ELSE LET row == rs[i]
             email == toLowerCase(row.Email)
             fresh == email \notin DOMAIN grouped
             cust == IF fresh
                     THEN [name |-> row.Name, phone |-> row.Phone,
                           email |-> email, items |-> <<>>]
                     ELSE grouped[email]
         IN  groupLoopAll(rs, i + 1,
                     Put(grouped, email,
                         [cust EXCEPT !.items = Append(@, ItemOfRow(row))]),
                     IF fresh THEN Append(order, email) ELSE order)

groupByEmail_keepNoEmail(rs) == groupLoopAll(rs, 1, EmptyObject, <<>>)

groupByEmail(rs) == groupLoop(rs, 1, EmptyObject, <<>>)

(***************************************************************************)
(* Inputs: pricing.json configurations, items, rows                        *)
(***************************************************************************)
Tier(m) == [minQty |-> m, label |-> ToString(m) \o "+ pcs"]

\* the tiers of the shipped configuration
DefaultTiers == <<Tier(72), Tier(50), Tier(18), Tier(6)>>

RECURSIVE DescTiers(_)
DescTiers(S) ==
    IF S = {} THEN <<>>
    ELSE LET m == CHOOSE x \in S : \A y \in S : y <= x
         IN  <<Tier(m)>> \o DescTiers(S \ {m})

\* every non-empty tier list sorted descending over the thresholds 0..MaxMinQty
TierLists == {DescTiers(S) : S \in (SUBSET (0..MaxMinQty)) \ {{}}} \cup {DefaultTiers}

TierKeys(tiers) == {ToString(tiers[i].minQty) : i \in 1..Len(tiers)}

\* hundredths of the currency unit
SamplePrice(product, tierKey) ==
    LET jacket == CASE tierKey = "6" -> 17500
                    [] tierKey = "18" -> 17358
                    [] tierKey = "50" -> 16268
                    [] tierKey = "72" -> 15968
                    [] tierKey = "7" -> 17400
                    [] tierKey = "5" -> 17600
                    [] OTHER -> 17450
    IN  IF product = "Jacket" THEN jacket ELSE jacket - 4212

PriceTable(product, tiers) ==
    [k \in TierKeys(tiers) |-> SamplePrice(product, k)]

PricingConfig(tiers, hasLogoFee, hasFoldingFee) ==
    [tiers |-> tiers,
     products |-> [p \in {"Jacket", "Vest"} |-> PriceTable(p, tiers)],
     embroideryFee |-> 800,
     taxRate |-> [p |-> 725, q |-> 10000],
     currency |-> "usd"]
    @@ (IF hasLogoFee THEN [logoFee |-> 1000] ELSE EmptyObject)
    @@ (IF hasFoldingFee THEN [foldingFee |-> 75] ELSE EmptyObject)

\* configurations handed to direct calls of getItemPrice
CallPricings ==
    {PricingConfig(t, l, f) :
        t \in {DefaultTiers, <<Tier(7), Tier(6)>>, <<Tier(10), Tier(5)>>},
        l \in BOOLEAN, f \in BOOLEAN}

Item(product, color, embroideredName) ==
    [product |-> product, style |-> "Full-Zip", size |-> "M", color |-> color,
     logo |-> "CMC EM", embroideredName |-> embroideredName,
     threadColor |-> "White"]

CallItems ==
    {Item(p, c, e) : p \in {"Jacket", "Mystery", ""},
                     c \in {"Birch White", "Stonewash", "Black", "Gray"},
                     e \in {"", " ", "Dr. Smith"}}

CallTierMaps(pr) ==
    {EmptyObject}
    \cup {[k \in {key} |-> t] : key \in {"Jacket|Gray", "Jacket|Black"},
                                 t \in TierKeys(pr.tiers)}

CallKeys == {"Jacket|Gray", "Jacket|Black"}

CallCounts ==
    UNION {[K -> 0..MaxQty] : K \in SUBSET CallKeys}

\* colours handed to direct calls of normalizeColor
CallColors ==
    {"Birch White", "Stonewash", "Gray", "Black", "birch white", "gray", ""}

\* the Email cells of rows handed to direct calls of groupByEmail
CallEmails == {"a@x.org", " a@x.org", "B@X.org", "b@x.org", "", "7", "3"}

\* a row of the sheet, told apart by its Size cell
CallRow(email, i) ==
    [Name |-> "Pat", Phone |-> "555-0100", Email |-> email,
     Product |-> "Jacket", Style |-> "Full-Zip", Size |-> ToString(i),
     Color |-> "Black", Logo |-> "CMC EM", EmbroideredName |-> "",
     ThreadColor |-> ""]

CallRowLists ==
    UNION {{[i \in 1..n |-> CallRow(e[i], i)] : e \in [1..n -> CallEmails]} :
              n \in 0..MaxRows}

(***************************************************************************)
(* google-apps-script.js: syncStripePayments                               *)
(***************************************************************************)
\* the cell value that marks a row as paid (the check mark U+2713)
CheckMark == "[check]"

\* a data row of the Orders sheet: the cells of the columns the sync reads
SheetRow(email, invoiceId, paid) ==
    [Email |-> email, InvoiceID |-> invoiceId, Paid |-> paid]

\* the two lookup maps built from the paid invoices
RECURSIVE paidLoop(_, _, _)
paidLoop(paidInvoices, i, maps) ==
    IF i > Len(paidInvoices) THEN maps
    ELSE LET inv == paidInvoices[i]
             byId == Put(maps.paidByInvoiceId, inv.id, TRUE)
             byEmail == IF inv.customer_email # ""
                        THEN Put(maps.paidByEmail,
                                 toLowerCase(inv.customer_email), inv.id)
                        ELSE maps.paidByEmail
         IN  paidLoop(paidInvoices, i + 1,
                      [paidByInvoiceId |-> byId, paidByEmail |-> byEmail])

\* the body of the loop over the data rows: the row as the sheet holds it
\* afterwards
syncRow(row, maps) ==
    LET invoiceId == IF row.InvoiceID # "" THEN trim(row.InvoiceID) ELSE ""
        email == IF row.Email # "" THEN toLowerCase(trim(row.Email)) ELSE ""
        currentPaidStatus == IF row.Paid # "" THEN trim(row.Paid) ELSE ""
        byId == invoiceId # "" /\ invoiceId \in DOMAIN maps.paidByInvoiceId
        byEmail == ~byId /\ email # "" /\ email \in DOMAIN maps.paidByEmail
        matchedInvoiceId == IF byId THEN invoiceId
                            ELSE IF byEmail THEN maps.paidByEmail[email]
                            ELSE ""
    IN  IF currentPaidStatus = CheckMark THEN row
        ELSE IF ~(byId \/ byEmail) THEN row
        ELSE [row EXCEPT
                !.InvoiceID = IF invoiceId = "" /\ matchedInvoiceId # ""
                              THEN matchedInvoiceId ELSE @,
                !.Paid = CheckMark]

\* syncStripePayments on the data rows of the sheet, given the paid invoices
\* fetchPaidInvoices returned
syncStripePayments(data, paidInvoices) ==
    LET maps == paidLoop(paidInvoices, 1,
                         [paidByInvoiceId |-> EmptyObject,
                          paidByEmail |-> EmptyObject])
    IN  [r \in 1..Len(data) |-> syncRow(data[r], maps)]

\* the sheets and the answers of Stripe the sync is called on
SheetRows ==
    {SheetRow(e, v, p) : e \in {"a@x.org", "B@X.org"}, v \in {"", "in_1"},
                         p \in {"", CheckMark}}

Sheets == UNION {[1..n -> SheetRows] : n \in 0..MaxSheetRows}

PaidInvoice(id, email) == [id |-> id, customer_email |-> email]

PaidInvoiceLists ==
    UNION {[1..n -> {PaidInvoice(id, e) : id \in {"in_1", "in_2"},
                                          e \in {"a@x.org", "B@X.org"}}] :
              n \in 0..MaxPaid}

(***************************************************************************)
(* google-apps-script.js: the Summary tab                                  *)
(***************************************************************************)
\* a plausible slip: > for >=
getPriceTier_gt(qty) ==
    IF qty > 72 THEN 72
    ELSE IF qty > 50 THEN 50
    ELSE IF qty > 18 THEN 18
    ELSE 6

getPriceTier(qty) ==
    IF qty >= 72 THEN 72
    ELSE IF qty >= 50 THEN 50
    ELSE IF qty >= 18 THEN 18
    ELSE 6

\* the status cells of the Summary tab, without their marks
NotFulfilled == "NOT FULFILLED"
Ok == "OK"

\* updateSummary: the tier and the status of a combination with this count
summaryCombo(count) ==
    [tier |-> getPriceTier(count),
     status |-> IF count < 6 THEN NotFulfilled ELSE Ok]

(***************************************************************************)
(* Direct calls of the functions lib/pricing.js exports                    *)
(***************************************************************************)
NoCall == [fn |-> "none"]

CallFilterByMinimum ==
    /\ call = NoCall
    /\ \E counts \in CallCounts, minQuantity \in 0..MaxMinQty :
          call' = [fn |-> "filterByMinimum", counts |-> counts,
                   minQuantity |-> minQuantity,
                   result |-> filterByMinimum(counts, minQuantity)]
    /\ UNCHANGED mainVars

CallGetPricingTier ==
    /\ call = NoCall
    /\ \E qty \in 0..MaxQty, tiers \in TierLists :
          call' = [fn |-> "getPricingTier", qty |-> qty, tiers |-> tiers,
                   result |-> getPricingTier(qty, tiers)]
    /\ UNCHANGED mainVars

CallGetItemPrice ==
    /\ call = NoCall
    /\ \E pr \in CallPricings :
       \E item \in CallItems, tMap \in CallTierMaps(pr) :
          call' = [fn |-> "getItemPrice", item |-> item, tierMap |-> tMap,
                   pricing |-> pr, result |-> getItemPrice(item, tMap, pr)]
    /\ UNCHANGED mainVars

CallFormatItemDescription ==
    /\ call = NoCall
    /\ \E item \in CallItems :
          call' = [fn |-> "formatItemDescription", item |-> item,
                   result |-> formatItemDescription(item)]
    /\ UNCHANGED mainVars

CallNormalizeColor ==
    /\ call = NoCall
    /\ \E color \in CallColors :
          call' = [fn |-> "normalizeColor", color |-> color,
                   result |-> normalizeColor(color)]
    /\ UNCHANGED mainVars

CallGroupByEmail ==
    /\ call = NoCall
    /\ \E rs \in CallRowLists :
          call' = [fn |-> "groupByEmail", rows |-> rs,
                   result |-> groupByEmail(rs)]
    /\ UNCHANGED mainVars

CallSyncStripePayments ==
    /\ call = NoCall
    /\ \E data \in Sheets, paid \in PaidInvoiceLists :
          call' = [fn |-> "syncStripePayments", data |-> data,
                   paidInvoices |-> paid,
                   result |-> syncStripePayments(data, paid)]
    /\ UNCHANGED mainVars

CallUpdateSummary ==
    /\ call = NoCall
    /\ \E count \in 0..MaxCount :
          call' = [fn |-> "updateSummary", count |-> count,
                   result |-> summaryCombo(count)]
    /\ UNCHANGED mainVars

Idle ==
    /\ pc = "idle"
    /\ args = {}
    /\ pricing = PricingConfig(DefaultTiers, TRUE, TRUE)
    /\ rows = <<>>
    /\ customers = <<>>
    /\ productColorCounts = EmptyObject
    /\ eligibleCombos = EmptyObject
    /\ excludedCombos = EmptyObject
    /\ tierMap = EmptyObject
    /\ ci = 0
    /\ lineItems = <<>>
    /\ customerTotal = Num(0)
    /\ totalRevenue = Num(0)
    /\ invoiceCount = 0
    /\ processed = <<>>
    /\ ext = EmptyObject

InitFn == call = NoCall /\ Idle

NextFn ==
    \/ CallFilterByMinimum
    \/ CallGetPricingTier
    \/ CallGetItemPrice
    \/ CallFormatItemDescription
    \/ CallNormalizeColor
    \/ CallGroupByEmail
    \/ CallSyncStripePayments
    \/ CallUpdateSummary

\* the exported functions called directly, on every input of the bounded sets
SpecFn == InitFn /\ [][NextFn]_vars

(***************************************************************************)
(* invoice.js: the inputs of a run                                         *)
(***************************************************************************)
MIN_QUANTITY == 6

Row(email, product, color, embroideredName) ==
    [Name |-> "Pat", Phone |-> "555-0100", Email |-> email,
     Product |-> product, Style |-> "Full-Zip", Size |-> "M", Color |-> color,
     Logo |-> "CMC EM", EmbroideredName |-> embroideredName,
     ThreadColor |-> "White"]

\* rows that follow the bulk block: a batch takes the first few of them
FreeRows ==
    <<Row("B@X.org", "Jacket", "Stonewash", ""),
      Row("a@x.org", "Mystery", "Black", ""),
      Row("a@x.org", "Jacket", "Birch White", "Dr. Smith"),
      Row("B@X.org", "", "Black", ""),
      Row("B@X.org", "Jacket", "Black", " ")>>

\* the row a bulk block repeats
BulkRows ==
    {Row("a@x.org", "Jacket", "Stonewash", ""),
     Row("", "Jacket", "Stonewash", ""),
     Row("a@x.org", "Mystery", "Black", "")}

\* no bulk block, one just below the minimum, one that meets it
BulkSizes == {0, MIN_QUANTITY - 1, MIN_QUANTITY}


Repeat(r, k) == [i \in 1..k |-> r]

\* the batches loadOrders() may return
Batches ==
    {Repeat(b, k) \o free :
        free \in {SubSeq(FreeRows, 1, n) : n \in 0..Len(FreeRows)},
        b \in BulkRows, k \in BulkSizes}

\* the command lines of a run
ArgSets == (SUBSET {"--dry-run", "--send", "--no-min"}) \cup {{"orders.csv"}}

\* configurations of a run
RunPricings ==
    {PricingConfig(DefaultTiers, TRUE, TRUE),
     PricingConfig(<<Tier(7), Tier(6)>>, TRUE, TRUE),
     PricingConfig(<<Tier(8), Tier(7)>>, TRUE, TRUE)}

dryRun == "--dry-run" \in args
autoSend == "--send" \in args
ignoreMinimum == "--no-min" \in args
\* APPS_SCRIPT_URL is set unless the rows come from a CSV file
sheetUrlSet == "orders.csv" \notin args

ExtInit ==
    [failures |-> 0,
     taxRateId |-> "",
     stripeCustomers |-> {"a@x.org"},     \* customers Stripe already knows
     invoices |-> <<>>,
     li |-> 0,
     sheetInvoiceIds |-> EmptyObject,
     errors |-> 0]

Init ==
    /\ call = NoCall
    /\ pc = "start"
    /\ args \in ArgSets
    /\ pricing \in RunPricings
    /\ rows \in Batches
    /\ customers = <<>>
    /\ productColorCounts = EmptyObject
    /\ eligibleCombos = EmptyObject
    /\ excludedCombos = EmptyObject
    /\ tierMap = EmptyObject
    /\ ci = 0
    /\ lineItems = <<>>
    /\ customerTotal = Num(0)
    /\ totalRevenue = Num(0)
    /\ invoiceCount = 0
    /\ processed = <<>>
    /\ ext = ExtInit

(***************************************************************************)
(* invoice.js: main()                                                      *)
(***************************************************************************)
CanFail == ext.failures < MaxFailures

\* loadOrders() rejects: main().catch reports a fatal error
LoadOrdersFails ==
    /\ pc = "start"
    /\ CanFail
    /\ pc' = "fatal"
    /\ ext' = [ext EXCEPT !.failures = @ + 1]
    /\ UNCHANGED <<call, args, pricing, rows, customers, productColorCounts,
                   eligibleCombos, excludedCombos, tierMap, ci, lineItems,
                   customerTotal, totalRevenue, invoiceCount, processed>>

\* a plausible slip: the flag tested the wrong way round
SplitCounts_inverted(counts, noMin) ==
    IF ~noMin THEN [eligible |-> counts, excluded |-> EmptyObject]
    ELSE filterByMinimum(counts, MIN_QUANTITY)

\* a plausible slip: the flag never looked at
SplitCounts_alwaysFilter(counts, noMin) ==
    filterByMinimum(counts, MIN_QUANTITY)

\* the split of the counts main() takes
SplitCounts(counts, noMin) ==
    IF noMin THEN [eligible |-> counts, excluded |-> EmptyObject]
    ELSE filterByMinimum(counts, MIN_QUANTITY)

\* a plausible slip: the tax rate looked up in a dry run too
Aggregate_taxRateAlways ==
    /\ pc = "start"
    /\ LET counts == countByProductColor(rows)
           split == SplitCounts(counts, ignoreMinimum)
       IN  /\ customers' = groupByEmail(rows)
           /\ productColorCounts' = counts
           /\ eligibleCombos' = split.eligible
           /\ excludedCombos' = split.excluded
           /\ tierMap' = buildTierMap(split.eligible, pricing.tiers)
           /\ pc' = IF DOMAIN split.eligible = {} THEN "done"
                    ELSE "taxRatesList"
    /\ ci' = 1
    /\ UNCHANGED <<call, args, pricing, rows, lineItems, customerTotal,
                   totalRevenue, invoiceCount, processed, ext>>

\* rows loaded; customers, counts, eligibility and tier map computed; the
\* pricing report printed
Aggregate ==
    /\ pc = "start"
    /\ LET counts == countByProductColor(rows)
           split == SplitCounts(counts, ignoreMinimum)
       IN  /\ customers' = groupByEmail(rows)
           /\ productColorCounts' = counts
           /\ eligibleCombos' = split.eligible
           /\ excludedCombos' = split.excluded
           /\ tierMap' = buildTierMap(split.eligible, pricing.tiers)
           /\ pc' = IF DOMAIN split.eligible = {} THEN "done"
                    ELSE IF dryRun THEN "loop"
                    ELSE "taxRatesList"
    /\ ci' = 1
    /\ UNCHANGED <<call, args, pricing, rows, lineItems, customerTotal,
                   totalRevenue, invoiceCount, processed, ext>>

\* getOrCreateTaxRate: stripe.taxRates.list
TaxRatesList ==
    /\ pc = "taxRatesList"
    /\ \E match \in BOOLEAN :
          IF match
          THEN /\ ext' = [ext EXCEPT !.taxRateId = "txr_1"]
               /\ pc' = "loop"
          ELSE /\ ext' = ext
               /\ pc' = "taxRatesCreate"
    /\ UNCHANGED <<call, args, pricing, rows, customers, productColorCounts,
                   eligibleCombos, excludedCombos, tierMap, ci, lineItems,
                   customerTotal, totalRevenue, invoiceCount, processed>>

\* getOrCreateTaxRate: stripe.taxRates.create
TaxRatesCreate ==
    /\ pc = "taxRatesCreate"
    /\ ext' = [ext EXCEPT !.taxRateId = "txr_1"]
    /\ pc' = "loop"
    /\ UNCHANGED <<call, args, pricing, rows, customers, productColorCounts,
                   eligibleCombos, excludedCombos, tierMap, ci, lineItems,
                   customerTotal, totalRevenue, invoiceCount, processed>>

\* a tax-rate call rejects: nothing catches it before main().catch
TaxRateFails ==
    /\ pc \in {"taxRatesList", "taxRatesCreate"}
    /\ CanFail
    /\ pc' = "fatal"
    /\ ext' = [ext EXCEPT !.failures = @ + 1]
    /\ UNCHANGED <<call, args, pricing, rows, customers, productColorCounts,
                   eligibleCombos, excludedCombos, tierMap, ci, lineItems,
                   customerTotal, totalRevenue, invoiceCount, processed>>

\* the loop over a customer's items
RECURSIVE itemLoop(_, _, _, _, _, _)
itemLoop(items, i, acc, eligible, tMap, pr) ==
    IF i > Len(items) THEN acc
    ELSE LET item == items[i]
             color == normalizeColor(item.color)
             comboKey == ProductColorKey(item.product, color)
             result == getItemPrice(item, tMap, pr)
         IN  IF ~(comboKey \in DOMAIN eligible /\ eligible[comboKey] # 0)
             THEN itemLoop(items, i + 1,
                           [acc EXCEPT !.excludedCount = @ + 1],
                           eligible, tMap, pr)
             ELSE IF result = Null
             THEN itemLoop(items, i + 1, acc, eligible, tMap, pr)
             ELSE itemLoop(items, i + 1,
                     [acc EXCEPT
                        !.customerTotal = Plus(@, result.price),
                        !.lineItems = Append(@,
                            [description |-> formatItemDescription(item),
                             amount |-> MathRound100(result.price),
                             currency |-> pr.currency,
                             taxable |-> TRUE])],
                     eligible, tMap, pr)

\* a plausible slip: an unknown product ends the customer's loop (break for continue)
RECURSIVE itemLoopBreak(_, _, _, _, _, _)
itemLoopBreak(items, i, acc, eligible, tMap, pr) ==
    IF i > Len(items) THEN acc
    ELSE LET item == items[i]
             comboKey == ProductColorKey(item.product, normalizeColor(item.color))
             result == getItemPrice(item, tMap, pr)
         IN  IF ~(comboKey \in DOMAIN eligible /\ eligible[comboKey] # 0)
             THEN itemLoopBreak(items, i + 1,
                                [acc EXCEPT !.excludedCount = @ + 1],
                                eligible, tMap, pr)
             ELSE IF result = Null THEN acc
             ELSE itemLoopBreak(items, i + 1,
                     [acc EXCEPT
                        !.customerTotal = Plus(@, result.price),
                        !.lineItems = Append(@,
                            [description |-> formatItemDescription(item),
                             amount |-> MathRound100(result.price),
                             currency |-> pr.currency,
                             taxable |-> TRUE])],
                     eligible, tMap, pr)

PricedItems_breakOnUnknown(customer) ==
    itemLoopBreak(customer.items, 1,
                  [lineItems |-> <<>>, customerTotal |-> Num(0), excludedCount |-> 0],
                  eligibleCombos, tierMap, pricing)

\* a plausible slip: the tier taken from the customer's own items of the combination
PricedItems_ownCount(customer) ==
    itemLoop(customer.items, 1,
             [lineItems |-> <<>>, customerTotal |-> Num(0), excludedCount |-> 0],
             eligibleCombos,
             [key \in DOMAIN eligibleCombos |->
                getPricingTier(
                    Cardinality({i \in 1..Len(customer.items) :
                        ProductColorKey(customer.items[i].product,
                                        normalizeColor(customer.items[i].color)) = key}),
                    pricing.tiers)],
             pricing)

\* a plausible slip: eligibility looked up in all counts, not in the eligible ones
PricedItems_anyCount(customer) ==
    itemLoop(customer.items, 1,
             [lineItems |-> <<>>, customerTotal |-> Num(0), excludedCount |-> 0],
             productColorCounts, tierMap, pricing)

PricedItems(customer) ==
    itemLoop(customer.items, 1,
             [lineItems |-> <<>>, customerTotal |-> Num(0), excludedCount |-> 0],
             eligibleCombos, tierMap, pricing)

\* a plausible slip: the test for an empty list of line items left out
ProcessCustomer_noSkip ==
    /\ pc = "loop"
    /\ ci <= Len(customers)
    /\ LET customer == customers[ci]
           priced == PricedItems(customer)
           tax == calculateTax(priced.customerTotal, pricing.taxRate)
           stripeFee == calculateStripeFee(Plus(priced.customerTotal, tax))
           orderTotal == Plus(Plus(priced.customerTotal, tax), stripeFee)
           feeLine == [description |-> "Payment processing fee (2.9% + $0.30)",
                       amount |-> MathRound100(stripeFee),
                       currency |-> pricing.currency,
                       taxable |-> FALSE]
       IN  /\ customerTotal' = priced.customerTotal
           /\ lineItems' = Append(priced.lineItems, feeLine)
           /\ processed' = Append(processed,
                 [email |-> customer.email,
                  lineItems |-> Append(priced.lineItems, feeLine),
                  excludedCount |-> priced.excludedCount,
                  skipped |-> FALSE,
                  subtotal |-> priced.customerTotal,
                  tax |-> tax,
                  stripeFee |-> stripeFee,
                  orderTotal |-> orderTotal])
           /\ totalRevenue' = Plus(totalRevenue, orderTotal)
           /\ IF dryRun
              THEN /\ invoiceCount' = invoiceCount + 1
                   /\ ci' = ci + 1
                   /\ pc' = "loop"
              ELSE /\ invoiceCount' = invoiceCount
                   /\ ci' = ci
                   /\ pc' = "customersList"
    /\ UNCHANGED <<call, args, pricing, rows, customers, productColorCounts,
                   eligibleCombos, excludedCombos, tierMap, ext>>

\* one pass of the customer loop up to its first external call
ProcessCustomer ==
    /\ pc = "loop"
    /\ ci <= Len(customers)
    /\ LET customer == customers[ci]
           priced == PricedItems(customer)
           tax == calculateTax(priced.customerTotal, pricing.taxRate)
           stripeFee == calculateStripeFee(Plus(priced.customerTotal, tax))
           orderTotal == Plus(Plus(priced.customerTotal, tax), stripeFee)
           feeLine == [description |-> "Payment processing fee (2.9% + $0.30)",
                       amount |-> MathRound100(stripeFee),
                       currency |-> pricing.currency,
                       taxable |-> FALSE]
       IN  /\ customerTotal' = priced.customerTotal
           /\ IF priced.lineItems = <<>>
              THEN /\ lineItems' = <<>>
                   /\ processed' = Append(processed,
                         [email |-> customer.email, lineItems |-> <<>>,
                          excludedCount |-> priced.excludedCount,
                          skipped |-> TRUE])
                   /\ ci' = ci + 1
                   /\ pc' = "loop"
                   /\ UNCHANGED <<totalRevenue, invoiceCount>>
              ELSE /\ lineItems' = Append(priced.lineItems, feeLine)
                   /\ processed' = Append(processed,
                         [email |-> customer.email,
                          lineItems |-> Append(priced.lineItems, feeLine),
                          excludedCount |-> priced.excludedCount,
                          skipped |-> FALSE,
                          subtotal |-> priced.customerTotal,
                          tax |-> tax,
                          stripeFee |-> stripeFee,
                          orderTotal |-> orderTotal])
                   /\ totalRevenue' = Plus(totalRevenue, orderTotal)
                   /\ IF dryRun
                      THEN /\ invoiceCount' = invoiceCount + 1
                           /\ ci' = ci + 1
                           /\ pc' = "loop"
                      ELSE /\ invoiceCount' = invoiceCount
                           /\ ci' = ci
                           /\ pc' = "customersList"
    /\ UNCHANGED <<call, args, pricing, rows, customers, productColorCounts,
                   eligibleCombos, excludedCombos, tierMap, ext>>

\* the summary after the last customer
Summary ==
    /\ pc = "loop"
    /\ ci > Len(customers)
    /\ pc' = "done"
    /\ UNCHANGED <<call, args, pricing, rows, customers, productColorCounts,
                   eligibleCombos, excludedCombos, tierMap, ci, lineItems,
                   customerTotal, totalRevenue, invoiceCount, processed, ext>>

(***************************************************************************)
(* invoice.js: createInvoice() and saveInvoiceIdToSheet()                  *)
(***************************************************************************)
CreateInvoiceStages ==
    {"customersList", "customersCreate", "invoicesCreate",
     "invoiceItemsCreate", "finalizeInvoice", "sendInvoice"}

unchangedByCalls ==
    <<call, args, pricing, rows, customers, productColorCounts,
      eligibleCombos, excludedCombos, tierMap, lineItems, customerTotal,
      totalRevenue, processed>>

\* stripe.customers.list
CustomersList ==
    /\ pc = "customersList"
    /\ pc' = IF customers[ci].email \in ext.stripeCustomers
             THEN "invoicesCreate" ELSE "customersCreate"
    /\ UNCHANGED <<unchangedByCalls, ci, invoiceCount, ext>>

\* stripe.customers.create
CustomersCreate ==
    /\ pc = "customersCreate"
    /\ ext' = [ext EXCEPT !.stripeCustomers = @ \cup {customers[ci].email}]
    /\ pc' = "invoicesCreate"
    /\ UNCHANGED <<unchangedByCalls, ci, invoiceCount>>

\* stripe.invoices.create
InvoicesCreate ==
    /\ pc = "invoicesCreate"
    /\ ext' = [ext EXCEPT
                 !.invoices = Append(@, [customer |-> customers[ci].email,
                                         items |-> <<>>,
                                         finalized |-> FALSE,
                                         sent |-> FALSE]),
                 !.li = 1]
    /\ pc' = IF lineItems = <<>> THEN "finalizeInvoice" ELSE "invoiceItemsCreate"
    /\ UNCHANGED <<unchangedByCalls, ci, invoiceCount>>

\* a plausible slip: the tax rate attached to every line item
InvoiceItemsCreate_taxAll ==
    /\ pc = "invoiceItemsCreate"
    /\ LET item == lineItems[ext.li]
           params == [description |-> item.description,
                      amount |-> item.amount,
                      currency |-> item.currency,
                      tax_rates |-> <<ext.taxRateId>>]
       IN  ext' = [ext EXCEPT
                     !.invoices[Len(ext.invoices)].items = Append(@, params),
                     !.li = @ + 1]
    /\ pc' = IF ext.li = Len(lineItems) THEN "finalizeInvoice"
             ELSE "invoiceItemsCreate"
    /\ UNCHANGED <<unchangedByCalls, ci, invoiceCount>>

\* stripe.invoiceItems.create for the next line item
InvoiceItemsCreate ==
    /\ pc = "invoiceItemsCreate"
    /\ LET item == lineItems[ext.li]
           params == [description |-> item.description,
                      amount |-> item.amount,
                      currency |-> item.currency,
                      tax_rates |-> IF item.taxable THEN <<ext.taxRateId>> ELSE <<>>]
       IN  ext' = [ext EXCEPT
                     !.invoices[Len(ext.invoices)].items = Append(@, params),
                     !.li = @ + 1]
    /\ pc' = IF ext.li = Len(lineItems) THEN "finalizeInvoice"
             ELSE "invoiceItemsCreate"
    /\ UNCHANGED <<unchangedByCalls, ci, invoiceCount>>

\* createInvoice returned: the invoice is counted and its identifier saved
AfterCreateInvoice(e) ==
    /\ invoiceCount' = invoiceCount + 1
    /\ ext' = e
    /\ IF sheetUrlSet
       THEN pc' = "sheetPost" /\ ci' = ci
       ELSE pc' = "loop" /\ ci' = ci + 1

\* a plausible slip: the invoice sent whatever the command line says
FinalizeInvoice_sendAlways ==
    /\ pc = "finalizeInvoice"
    /\ ext' = [ext EXCEPT !.invoices[Len(ext.invoices)].finalized = TRUE]
    /\ pc' = "sendInvoice"
    /\ UNCHANGED <<unchangedByCalls, ci, invoiceCount>>

\* stripe.invoices.finalizeInvoice
FinalizeInvoice ==
    /\ pc = "finalizeInvoice"
    /\ LET e == [ext EXCEPT !.invoices[Len(ext.invoices)].finalized = TRUE]
       IN  IF autoSend
           THEN /\ ext' = e
                /\ pc' = "sendInvoice"
                /\ UNCHANGED <<ci, invoiceCount>>
           ELSE AfterCreateInvoice(e)
    /\ UNCHANGED unchangedByCalls

\* stripe.invoices.sendInvoice
SendInvoice ==
    /\ pc = "sendInvoice"
    /\ AfterCreateInvoice([ext EXCEPT !.invoices[Len(ext.invoices)].sent = TRUE])
    /\ UNCHANGED unchangedByCalls

\* a call of createInvoice rejects: the catch of the customer loop logs it
CreateInvoiceFails ==
    /\ pc \in CreateInvoiceStages
    /\ CanFail
    /\ ext' = [ext EXCEPT !.failures = @ + 1, !.errors = @ + 1]
    /\ ci' = ci + 1
    /\ pc' = "loop"
    /\ UNCHANGED <<unchangedByCalls, invoiceCount>>

\* saveInvoiceIdToSheet: the POST answers "ok"
SheetPostOk ==
    /\ pc = "sheetPost"
    /\ ext' = [ext EXCEPT
                 !.sheetInvoiceIds = Put(@, customers[ci].email, Len(ext.invoices))]
    /\ ci' = ci + 1
    /\ pc' = "loop"
    /\ UNCHANGED <<unchangedByCalls, invoiceCount>>

\* a plausible slip: the write-back awaited without its own try block, outside
\* the try block of the loop
SheetPostFails_fatal ==
    /\ pc = "sheetPost"
    /\ CanFail
    /\ ext' = [ext EXCEPT !.failures = @ + 1]
    /\ pc' = "fatal"
    /\ UNCHANGED <<unchangedByCalls, ci, invoiceCount>>

\* saveInvoiceIdToSheet: the POST rejects or answers an error; a warning only
SheetPostFails ==
    /\ pc = "sheetPost"
    /\ CanFail
    /\ ext' = [ext EXCEPT !.failures = @ + 1]
    /\ ci' = ci + 1
    /\ pc' = "loop"
    /\ UNCHANGED <<unchangedByCalls, invoiceCount>>

Next ==
    \/ LoadOrdersFails
    \/ Aggregate
    \/ TaxRatesList
    \/ TaxRatesCreate
    \/ TaxRateFails
    \/ ProcessCustomer
    \/ Summary
    \/ CustomersList
    \/ CustomersCreate
    \/ InvoicesCreate
    \/ InvoiceItemsCreate
    \/ FinalizeInvoice
    \/ SendInvoice
    \/ CreateInvoiceFails
    \/ SheetPostOk
    \/ SheetPostFails

\* a run of invoice.js
Spec == Init /\ [][Next]_vars

(***************************************************************************)
(* Properties                                                              *)
(***************************************************************************)
\* the thresholds of a tier list
MinQtys(tiers) == {tiers[i].minQty : i \in 1..Len(tiers)}

\* the threshold of the tier a tier identifier names
TierMinQty(tierKey, tiers) ==
    CHOOSE m \in MinQtys(tiers) : ToString(m) = tierKey

SetMax(S) == CHOOSE x \in S : \A y \in S : y <= x
SetMin(S) == CHOOSE x \in S : \A y \in S : x <= y

\* C2: filterByMinimum puts every key of the counts in exactly one of
\* eligible / excluded, with its count, and in eligible iff count >= minimum;
\* the two hold no other key.
C2_FilterPartitions ==
    call.fn = "filterByMinimum" =>
        LET counts == call.counts
            el == call.result.eligible
            ex == call.result.excluded
        IN  /\ DOMAIN el \cup DOMAIN ex = DOMAIN counts
            /\ DOMAIN el \cap DOMAIN ex = {}
            /\ \A k \in DOMAIN counts :
                  /\ k \in DOMAIN el <=> counts[k] >= call.minQuantity
                  /\ k \in DOMAIN el => el[k] = counts[k]
                  /\ k \in DOMAIN ex => ex[k] = counts[k]

\* a key exactly at the minimum is eligible while another is excluded
C2_Witness ==
    /\ call.fn = "filterByMinimum"
    /\ call.minQuantity > 0
    /\ \E k \in DOMAIN call.result.eligible : call.counts[k] = call.minQuantity
    /\ DOMAIN call.result.excluded # {}

\* C3: for a non-empty tier list sorted descending, getPricingTier returns the
\* identifier of the largest threshold not exceeding the quantity, and of the
\* smallest threshold when the quantity is below all of them; the result
\* always names a tier of the list.
C3_TierResolved ==
    call.fn = "getPricingTier" =>
        LET reached == {m \in MinQtys(call.tiers) : m <= call.qty}
        IN  /\ call.result \in TierKeys(call.tiers)
            /\ reached # {} => call.result = ToString(SetMax(reached))
            /\ reached = {} => call.result = ToString(SetMin(MinQtys(call.tiers)))

\* a quantity below every threshold of a list of several tiers gets the floor
C3_Witness ==
    /\ call.fn = "getPricingTier"
    /\ Len(call.tiers) >= 2
    /\ \A m \in MinQtys(call.tiers) : call.qty < m
    /\ call.result = ToString(SetMin(MinQtys(call.tiers)))

\* C4: for a fixed tier list, a smaller quantity never resolves to a tier with
\* a larger threshold.
C4_TierMonotonic ==
    call.fn = "getPricingTier" =>
        \A q2 \in 0..call.qty :
            TierMinQty(getPricingTier(q2, call.tiers), call.tiers)
                <= TierMinQty(call.result, call.tiers)

\* a quantity that resolves strictly above what a smaller one resolves to,
\* the smaller one being below every threshold
C4_Witness ==
    /\ call.fn = "getPricingTier"
    /\ \E q2 \in 0..call.qty :
          /\ \A m \in MinQtys(call.tiers) : q2 < m
          /\ TierMinQty(getPricingTier(q2, call.tiers), call.tiers)
                < TierMinQty(call.result, call.tiers)

\* the fees a configuration charges on every priced item
FlatFees(pr) ==
    (IF "logoFee" \in DOMAIN pr THEN pr.logoFee ELSE 0)
    + (IF "foldingFee" \in DOMAIN pr THEN pr.foldingFee ELSE 0)

C8_BlankNameIsNoName ==
    /\ (/\ call.fn = "getItemPrice"
        /\ trim(call.item.embroideredName) = "") =>
           call.result = getItemPrice([call.item EXCEPT !.embroideredName = ""],
                                      call.tierMap, call.pricing)
    /\ (/\ call.fn = "formatItemDescription"
        /\ trim(call.item.embroideredName) = "") =>
           call.result = formatItemDescription([call.item EXCEPT !.embroideredName = ""])

\* C9: an item with a known product whose key is absent from the tier map is
\* priced at the floor tier of the configured tier list.
C9_AbsentKeyGetsFloorTier ==
    (/\ call.fn = "getItemPrice"
     /\ call.item.product \in DOMAIN call.pricing.products
     /\ ProductColorKey(call.item.product, normalizeColor(call.item.color))
            \notin DOMAIN call.tierMap) =>
        LET floorKey == ToString(SetMin(MinQtys(call.pricing.tiers)))
            table == call.pricing.products[call.item.product]
        IN  /\ call.result # Null
            /\ call.result.tierKey = floorKey
            /\ call.result.price =
                  Num(table[floorKey]
                      + (IF call.item.embroideredName # ""
                         THEN call.pricing.embroideryFee ELSE 0)
                      + FlatFees(call.pricing))

(***************************************************************************)
(* Properties of a run                                                     *)
(***************************************************************************)
Aggregated == pc \notin {"start", "fatal", "idle"}

\* the rows of the whole batch with this product and normalized colour
BatchCount(product, color) ==
    Cardinality({i \in 1..Len(rows) :
                    /\ rows[i].Product = product
                    /\ normalizeColor(rows[i].Color) = color})

ItemBatchCount(item) == BatchCount(item.product, normalizeColor(item.color))

KnownProduct(item) == item.product \in DOMAIN pricing.products

\* the product line items printed for the j-th customer (the fee line is last)
ProductLines(j) ==
    IF processed[j].lineItems = <<>> THEN <<>>
    ELSE SubSeq(processed[j].lineItems, 1, Len(processed[j].lineItems) - 1)

\* the unit price of an item at a tier, from the configuration
PriceAtTier(item, tierKey) ==
    Num(pricing.products[item.product][tierKey]
        + (IF item.embroideredName # "" THEN pricing.embroideryFee ELSE 0)
        + FlatFees(pricing))

C5_TierIdAtMostCount ==
    Aggregated =>
        \A k \in DOMAIN eligibleCombos :
            TierMinQty(tierMap[k], pricing.tiers) <= eligibleCombos[k]

\* C5 (amended): with the minimum filter active and a floor tier that does not
\* exceed the minimum quantity, every key of eligible has a tier identifier
\* <= its count.
C5_TierIdAtMostCountWhenFiltered ==
    (/\ Aggregated
     /\ ~ignoreMinimum
     /\ SetMin(MinQtys(pricing.tiers)) <= MIN_QUANTITY) =>
        \A k \in DOMAIN eligibleCombos :
            TierMinQty(tierMap[k], pricing.tiers) <= eligibleCombos[k]

\* an eligible combination resolved to the upper tier, its count at or above it
C5_Witness ==
    /\ Aggregated
    /\ ~ignoreMinimum
    /\ \E k \in DOMAIN eligibleCombos :
          /\ tierMap[k] = "7"
          /\ eligibleCombos[k] >= 7

\* C6: with the minimum filter active, a combination whose batch count is below
\* the minimum is no key of the tier map, and no line item of any customer
\* describes an item of such a combination.
C6_BelowMinimumNeverPriced ==
    (Aggregated /\ ~ignoreMinimum) =>
        /\ \A r \in 1..Len(rows) :
              LET row == rows[r]
              IN  BatchCount(row.Product, normalizeColor(row.Color)) < MIN_QUANTITY
                    => ProductColorKey(row.Product, normalizeColor(row.Color))
                          \notin DOMAIN tierMap
        /\ \A j \in 1..Len(processed) :
           \A i \in 1..Len(customers[j].items) :
              LET item == customers[j].items[i]
              IN  ItemBatchCount(item) < MIN_QUANTITY =>
                     \A k \in 1..Len(ProductLines(j)) :
                        ProductLines(j)[k].description
                           # formatItemDescription(item)

\* a customer with an item of a combination below the minimum and an item of
\* an eligible one was processed, and got a line item for the latter only
C6_Witness ==
    /\ ~ignoreMinimum
    /\ \E j \in 1..Len(processed) :
          /\ Len(ProductLines(j)) >= 1
          /\ \E i \in 1..Len(customers[j].items) :
                LET item == customers[j].items[i]
                IN  /\ KnownProduct(item)
                    /\ ItemBatchCount(item) > 0
                    /\ ItemBatchCount(item) < MIN_QUANTITY
          /\ Len(ProductLines(j)) < Len(customers[j].items)

\* the items of a customer that reach getItemPrice and have a price table
Priceable(item) ==
    /\ ProductColorKey(item.product, normalizeColor(item.color))
          \in DOMAIN eligibleCombos
    /\ KnownProduct(item)

\* C10: an item whose product has no price table gets no line item and stops
\* nothing: the product line items of a customer are, in order, those of all
\* the customer's items of eligible combinations that have a price table.
C10_UnknownProductSkippedAlone ==
    Aggregated =>
        \A j \in 1..Len(processed) :
            LET priceable == SelectSeq(customers[j].items, Priceable)
                lines == ProductLines(j)
            IN  /\ Len(lines) = Len(priceable)
                /\ \A k \in 1..Len(lines) :
                      /\ lines[k].description = formatItemDescription(priceable[k])
                      /\ lines[k].amount =
                            MathRound100(getItemPrice(priceable[k], tierMap, pricing).price)

\* a processed customer has an item without price table in an eligible
\* combination, between two items that both got their line item
C10_Witness ==
    \E j \in 1..Len(processed) :
        LET items == customers[j].items
        IN  \E u \in 1..Len(items) :
              /\ ~KnownProduct(items[u])
              /\ ProductColorKey(items[u].product, normalizeColor(items[u].color))
                    \in DOMAIN eligibleCombos
              /\ getItemPrice(items[u], tierMap, pricing) = Null
              /\ \E b \in 1..(u - 1) : Priceable(items[b])
              /\ \E a \in (u + 1)..Len(items) : Priceable(items[a])
              /\ Len(ProductLines(j)) = Len(SelectSeq(items, Priceable))
              /\ Len(ProductLines(j)) >= 2

(***************************************************************************)
(* Properties of the aggregation                                           *)
(***************************************************************************)
\* C12: normalizeColor returns "Gray" for a member of the synonym set and its
\* argument otherwise, and applying it to its own result changes nothing.
C12_NormalizeColorIdempotent ==
    call.fn = "normalizeColor" =>
        /\ call.color \in {"Birch White", "Stonewash"} => call.result = "Gray"
        /\ call.color \notin {"Birch White", "Stonewash"} => call.result = call.color
        /\ normalizeColor(call.result) = call.result

\* a synonym was normalized to "Gray"
C12_Witness ==
    /\ call.fn = "normalizeColor"
    /\ call.color = "Stonewash"
    /\ call.result = "Gray"
    /\ normalizeColor(call.result) = "Gray"

\* the rows of a call whose item is the k-th item of the c-th customer returned
RowsBehind(c, k) ==
    {i \in 1..Len(call.rows) : ItemOfRow(call.rows[i]) = call.result[c].items[k]}

\* the positions (customer, item) at which the item of row i was returned
PlacesOf(i) ==
    {<<c, k>> \in (1..Len(call.result)) \X (1..Len(call.rows)) :
        /\ k <= Len(call.result[c].items)
        /\ call.result[c].items[k] = ItemOfRow(call.rows[i])}

RECURSIVE SumItems(_, _)
SumItems(custs, c) ==
    IF c > Len(custs) THEN 0 ELSE Len(custs[c].items) + SumItems(custs, c + 1)

\* C13: a customer is identified by the lower-cased, trimmed email: rows whose
\* emails are equal after trimming and lower-casing have their items in one
\* customer, whose stored email is that lower-cased trimmed value.
C13_IdentityIsTrimmedLowercase ==
    call.fn = "groupByEmail" =>
        \A i \in 1..Len(call.rows) :
            LET id == trim(toLowerCase(call.rows[i].Email))
            IN  id # "" =>
                  \E c \in 1..Len(call.result) :
                     /\ call.result[c].email = id
                     /\ \A j \in 1..Len(call.rows) :
                           trim(toLowerCase(call.rows[j].Email)) = id =>
                              \E k \in 1..Len(call.result[c].items) :
                                 call.result[c].items[k] = ItemOfRow(call.rows[j])

\* C14: every row with a non-empty email has its item at exactly one place of
\* exactly one customer, a row without email has it nowhere, no customer is
\* without email or without items, and the items of all customers are as many
\* as the rows with a non-empty email.
C14_RowsConserved ==
    call.fn = "groupByEmail" =>
        /\ \A i \in 1..Len(call.rows) :
              Cardinality(PlacesOf(i)) = (IF call.rows[i].Email # "" THEN 1 ELSE 0)
        /\ \A c \in 1..Len(call.result) :
              /\ call.result[c].email # ""
              /\ call.result[c].items # <<>>
              /\ \A k \in 1..Len(call.result[c].items) : RowsBehind(c, k) # {}
        /\ SumItems(call.result, 1)
              = Cardinality({i \in 1..Len(call.rows) : call.rows[i].Email # ""})

\* rows with and without email went in; two customers came out, one of them
\* with two items
C14_Witness ==
    /\ call.fn = "groupByEmail"
    /\ \E i \in 1..Len(call.rows) : call.rows[i].Email = ""
    /\ Len(call.result) = 2
    /\ SumItems(call.result, 1) = 2
    /\ Len(call.rows) = 3

\* the first row that bears the email of the c-th customer returned
FirstRowOf(c) ==
    SetMin({i \in 1..Len(call.rows) :
               toLowerCase(call.rows[i].Email) = call.result[c].email})

\* C15: the customers come in the order in which their emails first appear in
\* the rows, and the items of each customer in the order of their rows.
C15_FirstSeenOrder ==
    call.fn = "groupByEmail" =>
        /\ \A c, d \in 1..Len(call.result) :
              c < d => FirstRowOf(c) < FirstRowOf(d)
        /\ \A c \in 1..Len(call.result) :
              call.result[c].items =
                 SelectSeq([i \in 1..Len(call.rows) |-> ItemOfRow(call.rows[i])],
                    LAMBDA it : \E i \in 1..Len(call.rows) :
                                   /\ ItemOfRow(call.rows[i]) = it
                                   /\ toLowerCase(call.rows[i].Email)
                                         = call.result[c].email)

RECURSIVE SumCounts(_, _)
SumCounts(counts, K) ==
    IF K = {} THEN 0
    ELSE LET k == CHOOSE x \in K : TRUE
         IN  counts[k] + SumCounts(counts, K \ {k})

\* the rows of the batch with this product whose raw colour is a gray synonym
GrayRows(product) ==
    {i \in 1..Len(rows) :
        /\ rows[i].Product = product
        /\ rows[i].Color \in {"Birch White", "Stonewash"}}

\* the items of all customers
AllItems ==
    UNION {{customers[c].items[i] : i \in 1..Len(customers[c].items)} :
              c \in 1..Len(customers)}

\* C11: rows of a product in either gray synonym are counted under the one key
\* "<product>|Gray" and under no key with the raw colour; items of the product
\* in either synonym get the same tier and the same unit price; a key of
\* another normalized colour is tiered from its own count.
C11_GraySynonymsCombined ==
    Aggregated =>
        /\ \A product \in {rows[r].Product : r \in 1..Len(rows)} :
                  (product # "" /\ GrayRows(product) # {}) =>
                     /\ ProductColorKey(product, "Gray") \in DOMAIN productColorCounts
                     /\ productColorCounts[ProductColorKey(product, "Gray")]
                           = Cardinality(GrayRows(product))
                     /\ ProductColorKey(product, "Birch White")
                           \notin DOMAIN productColorCounts
                     /\ ProductColorKey(product, "Stonewash")
                           \notin DOMAIN productColorCounts
        /\ \A it1, it2 \in AllItems :
              (/\ it1.product = it2.product
               /\ it1.color \in {"Birch White", "Stonewash"}
               /\ it2.color \in {"Birch White", "Stonewash"}) =>
                  getItemPrice([it1 EXCEPT !.embroideredName = ""], tierMap, pricing)
                     = getItemPrice([it2 EXCEPT !.embroideredName = ""], tierMap, pricing)
        /\ \A r \in 1..Len(rows) :
              LET product == rows[r].Product
                  color == normalizeColor(rows[r].Color)
                  key == ProductColorKey(product, color)
              IN  (color # "Gray" /\ key \in DOMAIN tierMap) =>
                     tierMap[key] = getPricingTier(BatchCount(product, color),
                                                   pricing.tiers)

\* jackets in both synonyms reach a tier together that the black jacket of the
\* same batch, tiered from its own count, does not
C11_Witness ==
    /\ Aggregated
    /\ \E r \in 1..Len(rows) :
          rows[r].Product = "Jacket" /\ rows[r].Color = "Birch White"
    /\ \E r \in 1..Len(rows) :
          rows[r].Product = "Jacket" /\ rows[r].Color = "Stonewash"
    /\ "Jacket|Gray" \in DOMAIN tierMap
    /\ "Jacket|Black" \in DOMAIN tierMap
    /\ tierMap["Jacket|Gray"] = "7"
    /\ tierMap["Jacket|Black"] = "6"
    /\ \E it1, it2 \in AllItems :
          /\ it1.color = "Birch White"
          /\ it2.color = "Stonewash"
          /\ getItemPrice(it1, tierMap, pricing).tierKey = "7"
          /\ getItemPrice(it2, tierMap, pricing).tierKey = "7"

\* C16: the counts have a key for exactly the (product, normalized colour)
\* pairs of the rows with a product, each with the number of those rows; rows
\* without product are skipped, so the counts add up to the rows with a
\* product, and no key carries a colour that normalization would change.
C16_CountsExact ==
    Aggregated =>
        /\ \A r \in 1..Len(rows) :
              rows[r].Product # "" =>
                 ProductColorKey(rows[r].Product, normalizeColor(rows[r].Color))
                    \in DOMAIN productColorCounts
        /\ \A key \in DOMAIN productColorCounts :
              \E r \in 1..Len(rows) :
                 /\ rows[r].Product # ""
                 /\ key = ProductColorKey(rows[r].Product,
                                          normalizeColor(rows[r].Color))
                 /\ productColorCounts[key]
                       = BatchCount(rows[r].Product, normalizeColor(rows[r].Color))
        /\ SumCounts(productColorCounts, DOMAIN productColorCounts)
              = Cardinality({r \in 1..Len(rows) : rows[r].Product # ""})
        /\ \A r \in 1..Len(rows) :
              normalizeColor(rows[r].Color) # rows[r].Color =>
                 ProductColorKey(rows[r].Product, rows[r].Color)
                    \notin DOMAIN productColorCounts

\* a batch with a row without product and rows of two combinations was counted
C16_Witness ==
    /\ Aggregated
    /\ \E r \in 1..Len(rows) : rows[r].Product = ""
    /\ Cardinality(DOMAIN productColorCounts) >= 2
    /\ \E key \in DOMAIN productColorCounts : productColorCounts[key] >= 2
    /\ SumCounts(productColorCounts, DOMAIN productColorCounts) = Len(rows) - 1

(***************************************************************************)
(* Properties of the totals                                                *)
(***************************************************************************)
\* the customers processed so far that were not skipped
Invoiced == {j \in 1..Len(processed) : ~processed[j].skipped}

\* the sum of the unit prices getItemPrice gives the items from the i-th on
RECURSIVE SumPrices(_, _)
SumPrices(items, i) ==
    IF i > Len(items) THEN Num(0)
    ELSE Plus(getItemPrice(items[i], tierMap, pricing).price, SumPrices(items, i + 1))

\* the subtotal of the j-th customer: the unit prices of the priced items
SubtotalOf(j) == SumPrices(SelectSeq(customers[j].items, Priceable), 1)

\* C17: for an invoiced customer the subtotal is the sum of the unit prices of
\* the customer's eligible priced items, tax = subtotal * taxRate, the
\* processing fee = (subtotal + tax) * 0.029 + 0.30 and the total is the sum
\* of the three; a subtotal of 300.00 gives tax 21.75 and fee 9.63075.
C17_TotalsComposed ==
    /\ calculateTax(Num(30000), [p |-> 725, q |-> 10000]) = Num(2175)
    /\ calculateStripeFee(Plus(Num(30000), Num(2175))) = Norm(963, 75, 1000)
    /\ \A j \in Invoiced :
          LET t == processed[j]
          IN  /\ t.subtotal = SubtotalOf(j)
              /\ t.tax = TimesRate(t.subtotal, pricing.taxRate.p, pricing.taxRate.q)
              /\ t.stripeFee
                    = Plus(TimesRate(Plus(t.subtotal, t.tax), 29, 1000), Num(30))
              /\ t.orderTotal = Plus(Plus(t.subtotal, t.tax), t.stripeFee)

\* a customer with several priced items, one of them embroidered, got totals
C17_Witness ==
    \E j \in Invoiced :
        /\ Len(ProductLines(j)) >= 2
        /\ \E i \in 1..Len(customers[j].items) :
              /\ Priceable(customers[j].items[i])
              /\ customers[j].items[i].embroideredName # ""
        /\ processed[j].orderTotal
              = Plus(Plus(SubtotalOf(j), processed[j].tax), processed[j].stripeFee)
        /\ processed[j].tax # Num(0)

\* the sum of the amounts of the first k line items
RECURSIVE SumAmounts(_, _)
SumAmounts(lines, k) ==
    IF k = 0 THEN Num(0) ELSE Plus(SumAmounts(lines, k - 1), lines[k].amount)

\* C18: subtotal, tax and processing fee are kept unrounded; only the amount of
\* a line item is rounded, half up, to a whole number of cents, and the fee
\* comes from the unrounded subtotal and tax, not from rounded amounts.
C18_RoundedAtEmissionOnly ==
    \A j \in Invoiced :
        LET t == processed[j]
            feeLine == t.lineItems[Len(t.lineItems)]
        IN  /\ t.subtotal = SubtotalOf(j)
            /\ \A k \in 1..(Len(t.lineItems) - 1) :
                  /\ t.lineItems[k].amount.n = 0
                  /\ t.lineItems[k].amount.d = 1
            /\ t.subtotal.n = 0 =>
                  t.subtotal = SumAmounts(t.lineItems, Len(t.lineItems) - 1)
            /\ t.tax = TimesRate(t.subtotal, pricing.taxRate.p, pricing.taxRate.q)
            /\ t.stripeFee
                  = Plus(TimesRate(Plus(t.subtotal, t.tax), 29, 1000), Num(30))
            /\ feeLine.amount = MathRound100(t.stripeFee)
            /\ feeLine.amount.n = 0

\* tax and fee of a customer are no whole numbers of cents, the fee differs
\* from the one rounded tax would give, and its line item is rounded up
C18_Witness ==
    \E j \in Invoiced :
        LET feeLine == processed[j].lineItems[Len(processed[j].lineItems)]
            sub == processed[j].subtotal
        IN  /\ processed[j].tax.n # 0
            /\ processed[j].stripeFee.n # 0
            /\ processed[j].stripeFee
                  # Plus(TimesRate(Plus(sub, MathRound100(processed[j].tax)), 29, 1000),
                         Num(30))
            /\ feeLine.amount = Num(processed[j].stripeFee.w + 1)

\* the sum of the order totals of the invoiced customers from the j-th on
RECURSIVE SumOrderTotals(_)
SumOrderTotals(j) ==
    IF j > Len(processed) THEN Num(0)
    ELSE Plus(IF processed[j].skipped THEN Num(0) ELSE processed[j].orderTotal,
              SumOrderTotals(j + 1))

\* C19: a customer none of whose items yields a product line item gets no
\* line item at all (no fee line), no external call is made for the customer,
\* and the customer counts neither as an invoice nor in the total revenue.
C19_NoLineItemsNoInvoice ==
    /\ \A j \in 1..Len(processed) :
          SelectSeq(customers[j].items, Priceable) = <<>> =>
             /\ processed[j].skipped
             /\ processed[j].lineItems = <<>>
             /\ \A v \in 1..Len(ext.invoices) :
                   ext.invoices[v].customer # customers[j].email
             /\ customers[j].email \in ext.stripeCustomers
                   => customers[j].email \in ExtInit.stripeCustomers
             /\ customers[j].email \notin DOMAIN ext.sheetInvoiceIds
             /\ ~(pc \in CreateInvoiceStages \cup {"sheetPost"} /\ ci = j)
    /\ invoiceCount <= Cardinality(Invoiced)
    /\ totalRevenue = SumOrderTotals(1)

\* a run that talks to Stripe passed a customer without product line items
\* and invoiced another
C19_Witness ==
    /\ ~dryRun
    /\ Len(processed) = 2
    /\ \E j \in 1..2 :
          /\ customers[j].items # <<>>
          /\ SelectSeq(customers[j].items, Priceable) = <<>>
          /\ processed[j].skipped
    /\ Cardinality(Invoiced) = 1
    /\ invoiceCount = 1
    /\ Len(ext.invoices) = 1
    /\ totalRevenue # Num(0)

\* C20: the line items of an invoiced customer are one product line item per
\* priced item, taxable and carrying base tier price plus embroidery, logo
\* and folding fees in one amount, followed by exactly one processing-fee line
\* item, the last and the only non-taxable one; what Stripe receives for the
\* invoice are these line items in this order, the tax rate on the taxable ones.
C20_LineItemsShape ==
    /\ \A j \in Invoiced :
          LET lines == processed[j].lineItems
              priced == SelectSeq(customers[j].items, Priceable)
          IN  /\ Len(priced) >= 1
              /\ Len(lines) = Len(priced) + 1
              /\ \A k \in 1..Len(priced) :
                    /\ lines[k].taxable
                    /\ lines[k].description = formatItemDescription(priced[k])
                    /\ lines[k].amount =
                          MathRound100(PriceAtTier(priced[k],
                             tierMap[ProductColorKey(priced[k].product,
                                        normalizeColor(priced[k].color))]))
              /\ ~lines[Len(lines)].taxable
              /\ lines[Len(lines)].description
                    = "Payment processing fee (2.9% + $0.30)"
    /\ \A v \in 1..Len(ext.invoices) :
          \E j \in Invoiced :
             LET lines == processed[j].lineItems
                 sent == ext.invoices[v].items
             IN  /\ processed[j].email = ext.invoices[v].customer
                 /\ Len(sent) <= Len(lines)
                 /\ ext.invoices[v].finalized => Len(sent) = Len(lines)
                 /\ \A k \in 1..Len(sent) :
                       /\ sent[k].description = lines[k].description
                       /\ sent[k].amount = lines[k].amount
                       /\ sent[k].currency = lines[k].currency
                       /\ sent[k].tax_rates
                             = (IF lines[k].taxable THEN <<ext.taxRateId>> ELSE <<>>)

\* Stripe has a finalized invoice of three line items: two taxable product
\* line items, one of them with embroidery, and the fee line without tax rate
C20_Witness ==
    \E v \in 1..Len(ext.invoices) :
        LET sent == ext.invoices[v].items
        IN  /\ ext.invoices[v].finalized
            /\ Len(sent) = 3
            /\ sent[1].tax_rates = <<"txr_1">>
            /\ sent[2].tax_rates = <<"txr_1">>
            /\ sent[3].tax_rates = <<>>
            /\ sent[1].amount # sent[2].amount

\* the items of the j-th customer that name no product
NoProductItems(j) ==
    {i \in 1..Len(customers[j].items) : customers[j].items[i].product = ""}

\* C21: in bypass mode (--no-min) every combination that has a count is
\* eligible with that count however small it is, the excluded set is empty,
\* and the only items of a customer counted as excluded are those without a
\* product.
C21_BypassDisablesFilter ==
    (Aggregated /\ ignoreMinimum) =>
        /\ \A r \in 1..Len(rows) :
              rows[r].Product # "" =>
                 LET key == ProductColorKey(rows[r].Product,
                                            normalizeColor(rows[r].Color))
                 IN  /\ key \in DOMAIN eligibleCombos
                     /\ eligibleCombos[key]
                           = BatchCount(rows[r].Product, normalizeColor(rows[r].Color))
        /\ DOMAIN excludedCombos = {}
        /\ \A j \in 1..Len(processed) :
              processed[j].excludedCount = Cardinality(NoProductItems(j))

\* a bypass run priced an item of a combination below the minimum for a
\* customer who also has an item without product
C21_Witness ==
    /\ ignoreMinimum
    /\ \E j \in 1..Len(processed) :
          /\ \E i \in 1..Len(customers[j].items) :
                LET item == customers[j].items[i]
                IN  /\ KnownProduct(item)
                    /\ ItemBatchCount(item) < MIN_QUANTITY
                    /\ \E k \in 1..Len(ProductLines(j)) :
                          ProductLines(j)[k].description = formatItemDescription(item)
          /\ NoProductItems(j) # {}
          /\ processed[j].excludedCount = Cardinality(NoProductItems(j))

\* C22: in a run where the minimum filter is bypassed, no invoice is created,
\* finalized or sent at the invoicing API.
C22_BypassNeverInvoices ==
    ignoreMinimum =>
        /\ ext.invoices = <<>>
        /\ pc \notin {"invoiceItemsCreate", "finalizeInvoice", "sendInvoice"}

\* the positions of main() at which a call of the invoicing API is pending
StripeStages == {"taxRatesList", "taxRatesCreate"} \cup CreateInvoiceStages

\* C23: in a non-dry run a failing call of the invoicing API does not abort
\* the run and counts no invoice; when a customer is being processed the loop
\* goes on to the next customer.
C23_StripeFailureCaughtPerCustomer ==
    [][(~dryRun /\ pc \in StripeStages /\ ext'.failures = ext.failures + 1) =>
          /\ pc' # "fatal"
          /\ invoiceCount' = invoiceCount
          /\ pc \in CreateInvoiceStages => (pc' = "loop" /\ ci' = ci + 1)]_vars

\* the invoices of the invoicing API that createInvoice completed
CompleteInvoices ==
    {v \in 1..Len(ext.invoices) :
        /\ ext.invoices[v].finalized
        /\ autoSend => ext.invoices[v].sent}

\* C24: the write-back of the invoice identifier is pending only when the
\* current customer's invoice is complete (all line items submitted,
\* finalized, sent if asked for) and counted; whatever the write-back answers,
\* the count stays, no error is reported and the loop goes on to the next
\* customer.
C24_WriteBackBestEffort ==
    [][pc = "sheetPost" =>
          /\ ext.invoices # <<>>
          /\ LET invoice == ext.invoices[Len(ext.invoices)]
             IN  /\ invoice.customer = customers[ci].email
                 /\ Len(invoice.items) = Len(lineItems)
                 /\ Len(ext.invoices) \in CompleteInvoices
          /\ invoiceCount = Cardinality(CompleteInvoices)
          /\ invoiceCount' = invoiceCount
          /\ ext'.errors = ext.errors
          /\ ext'.invoices = ext.invoices
          /\ pc' = "loop"
          /\ ci' = ci + 1]_vars

\* the write-back of the first customer's invoice failed; that invoice is
\* counted, and the second customer was invoiced and written back afterwards
C24_Witness ==
    /\ pc = "done"
    /\ ext.failures = 1
    /\ ext.errors = 0
    /\ Len(ext.invoices) = 2
    /\ invoiceCount = 2
    /\ DOMAIN ext.sheetInvoiceIds = {customers[2].email}

\* the positions main() may be at once createInvoice has returned
Returned == {"sheetPost", "loop"}

\* the step of a call of createInvoice that succeeds, by the position it is
\* taken from
CallSucceeds ==
    LET email == customers[ci].email
        n == Len(ext.invoices)
    IN  /\ ext'.failures = ext.failures
        /\ pc = "customersList" =>
              /\ ext' = ext
              /\ pc' = IF email \in ext.stripeCustomers THEN "invoicesCreate"
                       ELSE "customersCreate"
        /\ pc = "customersCreate" =>
              /\ email \notin ext.stripeCustomers
              /\ ext'.stripeCustomers = ext.stripeCustomers \cup {email}
              /\ ext'.invoices = ext.invoices
              /\ pc' = "invoicesCreate"
        /\ pc = "invoicesCreate" =>
              /\ email \in ext.stripeCustomers
              /\ ext'.invoices =
                    Append(ext.invoices,
                           [customer |-> email, items |-> <<>>,
                            finalized |-> FALSE, sent |-> FALSE])
              /\ pc' = "invoiceItemsCreate"
        /\ pc = "invoiceItemsCreate" =>
              LET k == Len(ext.invoices[n].items) + 1
              IN  /\ k <= Len(lineItems)
                  /\ Len(ext'.invoices) = n
                  /\ Len(ext'.invoices[n].items) = k
                  /\ SubSeq(ext'.invoices[n].items, 1, k - 1) = ext.invoices[n].items
                  /\ ext'.invoices[n].items[k].description = lineItems[k].description
                  /\ ext'.invoices[n].items[k].amount = lineItems[k].amount
                  /\ ~ext'.invoices[n].finalized
                  /\ ~ext'.invoices[n].sent
                  /\ pc' = IF k = Len(lineItems) THEN "finalizeInvoice"
                           ELSE "invoiceItemsCreate"
        /\ pc = "finalizeInvoice" =>
              /\ Len(ext.invoices[n].items) = Len(lineItems)
              /\ ~ext.invoices[n].finalized
              /\ ext'.invoices = [ext.invoices EXCEPT ![n].finalized = TRUE]
              /\ IF autoSend THEN pc' = "sendInvoice" ELSE pc' \in Returned
        /\ pc = "sendInvoice" =>
              /\ autoSend
              /\ ext.invoices[n].finalized
              /\ ~ext.invoices[n].sent
              /\ ext'.invoices = [ext.invoices EXCEPT ![n].sent = TRUE]
              /\ pc' \in Returned

\* the step of a call of createInvoice that fails: nothing later is issued
\* and nothing already created is taken back
CallFails ==
    /\ ext'.failures = ext.failures + 1
    /\ ext'.invoices = ext.invoices
    /\ ext'.stripeCustomers = ext.stripeCustomers
    /\ pc' = "loop"
    /\ ci' = ci + 1

\* C25: createInvoice issues customer lookup, customer create (only when the
\* lookup found none), invoice create, one line-item submission per line item
\* in list order, finalize and send (only with --send), each after the one
\* before succeeded; a failing call ends the sequence and leaves the customer
\* and the invoice as they are, so an invoice abandoned this way is never
\* finalized or sent later.
C25_CreateInvoiceCallOrder ==
    [][/\ pc \in CreateInvoiceStages => (CallSucceeds \/ CallFails)
       /\ pc \notin CreateInvoiceStages => ext'.invoices = ext.invoices]_vars

\* a line-item submission failed after an earlier one succeeded: the invoice
\* of the newly created customer stays as a draft with one line item
C25_Witness ==
    /\ pc = "done"
    /\ ext.errors = 1
    /\ "b@x.org" \in ext.stripeCustomers
    /\ \E v \in 1..Len(ext.invoices) :
          /\ ext.invoices[v].customer = "b@x.org"
          /\ Len(ext.invoices[v].items) = 1
          /\ ~ext.invoices[v].finalized
          /\ ~ext.invoices[v].sent

\* the customers that have an item with a price in an eligible combination
CustomersToInvoice ==
    {c \in 1..Len(customers) :
        \E i \in 1..Len(customers[c].items) : Priceable(customers[c].items[i])}

\* C26: in a dry run no call of the invoicing API is ever pending, the tax
\* rate, the customers and the invoices of the invoicing API and the invoice
\* identifiers of the order store stay as they were, and the summary counts
\* one invoice to create for each customer with a product line item.
C26_DryRunChangesNothing ==
    dryRun =>
        /\ pc \notin StripeStages \cup {"sheetPost"}
        /\ ext.taxRateId = ExtInit.taxRateId
        /\ ext.stripeCustomers = ExtInit.stripeCustomers
        /\ ext.invoices = <<>>
        /\ ext.sheetInvoiceIds = EmptyObject
        /\ pc = "done" => invoiceCount = Cardinality(CustomersToInvoice)

\* a dry run ended with one customer counted and another one skipped
C26_Witness ==
    /\ dryRun
    /\ pc = "done"
    /\ Len(customers) = 2
    /\ invoiceCount = 1
    /\ \E j \in 1..2 : processed[j].skipped
    /\ \E j \in 1..2 : Len(ProductLines(j)) >= 1

\* the identifiers of the paid invoices of a call
PaidIds(paidInvoices) == {paidInvoices[i].id : i \in 1..Len(paidInvoices)}

\* C27: syncStripePayments leaves a row already marked paid as it is, and
\* marks a row with a non-empty Invoice ID as paid only if that identifier is
\* the identifier of one of the paid invoices fetched.
C27_InvoiceIdRowMatchedByIdOnly ==
    call.fn = "syncStripePayments" =>
        \A r \in 1..Len(call.data) :
            LET row == call.data[r]
                after == call.result[r]
            IN  /\ row.Paid = CheckMark => after = row
                /\ (row.Paid # CheckMark /\ row.InvoiceID # ""
                      /\ after.Paid = CheckMark)
                      => row.InvoiceID \in PaidIds(call.paidInvoices)

\* the customers whose call of createInvoice returned an invoice
Succeeded ==
    {j \in 1..Len(processed) :
        \E v \in CompleteInvoices : ext.invoices[v].customer = customers[j].email}

\* the sum of the order totals of the customers of S from the j-th on
RECURSIVE SumTotalsOf(_, _)
SumTotalsOf(S, j) ==
    IF j > Len(processed) THEN Num(0)
    ELSE Plus(IF j \in S THEN processed[j].orderTotal ELSE Num(0),
              SumTotalsOf(S, j + 1))

\* C28: at the summary of a non-dry run the invoice count is the number of
\* customers whose invoice creation succeeded and the total revenue is the sum
\* of the order totals of exactly those customers.
C28_SummaryMatchesInvoiced ==
    (pc = "done" /\ ~dryRun) =>
        /\ invoiceCount = Cardinality(Succeeded)
        /\ totalRevenue = SumTotalsOf(Succeeded, 1)

\* C29: in every run, with or without --no-min, an item that passes the
\* eligibility test of the customer loop has its key in the tier map, mapped
\* to the tier of the key's batch count (at least 1), so getItemPrice returns
\* that tier and not its fallback, and every product line item carries the
\* price at that tier.
C29_TierMapCoversPricedItems ==
    Aggregated =>
        /\ \A c \in 1..Len(customers) :
           \A i \in 1..Len(customers[c].items) :
              LET item == customers[c].items[i]
                  key == ProductColorKey(item.product, normalizeColor(item.color))
              IN  (key \in DOMAIN eligibleCombos /\ eligibleCombos[key] # 0) =>
                     /\ key \in DOMAIN tierMap
                     /\ ItemBatchCount(item) >= 1
                     /\ tierMap[key]
                           = getPricingTier(ItemBatchCount(item), pricing.tiers)
                     /\ KnownProduct(item) =>
                           getItemPrice(item, tierMap, pricing).tierKey = tierMap[key]
        /\ \A j \in 1..Len(processed) :
              LET priceable == SelectSeq(customers[j].items, Priceable)
                  lines == ProductLines(j)
              IN  /\ Len(lines) = Len(priceable)
                  /\ \A k \in 1..Len(lines) :
                        lines[k].amount =
                           MathRound100(PriceAtTier(priceable[k],
                              getPricingTier(ItemBatchCount(priceable[k]),
                                             pricing.tiers)))

\* a bypass run whose smallest tier threshold is 7 priced an item of a
\* combination with fewer rows than that, at the tier the map holds for it
C29_Witness ==
    /\ ignoreMinimum
    /\ pricing.tiers[Len(pricing.tiers)].minQty = 7
    /\ \E j \in 1..Len(processed) :
          /\ Len(ProductLines(j)) >= 1
          /\ \E i \in 1..Len(customers[j].items) :
                LET item == customers[j].items[i]
                    key == ProductColorKey(item.product, normalizeColor(item.color))
                IN  /\ KnownProduct(item)
                    /\ ItemBatchCount(item) < 7
                    /\ key \in DOMAIN tierMap
                    /\ tierMap[key] = "7"

\* C30: under the default configuration the Summary tab gives a combination
\* the tier getPricingTier gives its count, and the status NOT FULFILLED
\* exactly when filterByMinimum with the minimum of invoice.js excludes it.
C30_SummaryAgreesWithPipeline ==
    call.fn = "updateSummary" =>
        LET counts == Put(EmptyObject, "Jacket|Black", call.count)
            split == filterByMinimum(counts, MIN_QUANTITY)
        IN  /\ ToString(call.result.tier) = getPricingTier(call.count, DefaultTiers)
            /\ call.result.status = NotFulfilled
                  <=> "Jacket|Black" \in DOMAIN split.excluded
            /\ call.result.status = Ok
                  <=> "Jacket|Black" \in DOMAIN split.eligible

\* the summary was computed for a combination of exactly 18 rows: tier 18,
\* status OK
C30_Witness ==
    /\ call.fn = "updateSummary"
    /\ call.count = 18
    /\ call.result = [tier |-> 18, status |-> Ok]

====
